---- MODULE Spec2Model ----
\* Terraform remote-state retrieval and resource indexing (TerraformBackends:
\* Verify, Pull, Load; S3Backend.Download; LoadStateFromFile).
\*
\* Strings are sequences of one-character strings, so that substring
\* replacement, path splitting and path cleaning are computed, not assumed.
EXTENDS Integers, Sequences, FiniteSets, TLC

\* ---------------------------------------------------------------- bounds

\* longest backend list of a configuration
MaxBackends == 3
\* how many times Pull is called in one behaviour
MaxPulls == 2
\* longest object key drawn for the path-rewriting specification
MaxLen == 3
\* longest list of path-substitution rules drawn for that specification
MaxRules == 2
\* most instances in a state document drawn for the decoder specification
MaxInstances == 2

\* the items a paginated call lists at most
MaxItems == 2

\* the principals of an account at most
MaxPrincipals == 2

\* the times a job is polled at most while it is in progress
MaxInProgress == 1

\* ---------------------------------------------------------------- strings

NIL == "nil"

\* a nil error value; every other error is a record with another op
NoErr == [op |-> "nil"]

\* a nil *Options
NilOptions == [isNil |-> TRUE]

SL == <<"/">>

\* the element of a one-element set: The({F(x) : x \in {e}}) is F(e) with e
\* computed once, which is how a loop hands its state to its next turn
The(S) == CHOOSE x \in S : TRUE

\* strings.Index(s, old): offset (from 0) of the first occurrence, -1 if none
Index(s, old) ==
    LET hits == {j \in 0..(Len(s) - Len(old)) : SubSeq(s, j + 1, j + Len(old)) = old}
    IN  IF hits = {} THEN -1 ELSE CHOOSE j \in hits : \A k \in hits : j <= k

\* strings.Count(s, old): non-overlapping occurrences; runes + 1 for an empty old
RECURSIVE CountFrom(_, _, _)
CountFrom(s, old, start) ==
    LET j == Index(SubSeq(s, start + 1, Len(s)), old)
    IN  IF j = -1 THEN 0 ELSE 1 + CountFrom(s, old, start + j + Len(old))

Count(s, old) == IF old = <<>> THEN Len(s) + 1 ELSE CountFrom(s, old, 0)

\* one turn of the copy loop of strings.Replace: c.i occurrences replaced so
\* far, the unread input begins at offset c.start, c.b is the output buffer
ReplaceStep(s, old, new, c) ==
    LET j == IF old = <<>>
             THEN (IF c.i > 0 THEN c.start + 1 ELSE c.start)
             ELSE c.start + Index(SubSeq(s, c.start + 1, Len(s)), old)
    IN  [i |-> c.i + 1, start |-> j + Len(old), b |-> c.b \o SubSeq(s, c.start + 1, j) \o new]

\* for i := 0; i < n; i++ {...}; b.WriteString(s[start:])
RECURSIVE ReplaceLoop(_, _, _, _, _)
ReplaceLoop(s, old, new, n, c) ==
    IF c.i >= n THEN c.b \o SubSeq(s, c.start + 1, Len(s))
    ELSE The({ReplaceLoop(s, old, new, n, d) : d \in {ReplaceStep(s, old, new, c)}})

\* a Replace that stops after the first occurrence
ReplaceCount_First(s, old) == IF Count(s, old) > 0 THEN 1 ELSE 0

\* the number of replacements strings.Replace(s, old, new, -1) makes
ReplaceCount(s, old) == Count(s, old)

\* strings.Replace(s, old, new, -1)
Replace(s, old, new) ==
    IF old = new THEN s
    ELSE LET m == ReplaceCount(s, old)
         IN  IF m = 0 THEN s
             ELSE ReplaceLoop(s, old, new, m, [i |-> 0, start |-> 0, b |-> <<>>])

\* the substitution loop of Download: every rule, in list order
RECURSIVE ApplySubstitutions(_, _)
ApplySubstitutions(key, subs) ==
    IF subs = <<>> THEN key
    ELSE The({ApplySubstitutions(k, Tail(subs)) :
                k \in {Replace(key, Head(subs).Old, Head(subs).New)}})

\* transformed := key; if options != nil && options.PathSubstitutions != nil {...}
Transform(key, options) ==
    IF options # NilOptions THEN ApplySubstitutions(key, options.PathSubstitutions) ELSE key

\* ---------------------------------------------------------------- paths

LastSlash(p) ==
    LET at == {i \in 1..Len(p) : p[i] = "/"}
    IN  IF at = {} THEN 0 ELSE CHOOSE i \in at : \A k \in at : k <= i

\* filepath.Split: everything up to and including the last separator, the rest
Split(p) == [dir |-> SubSeq(p, 1, LastSlash(p)), file |-> SubSeq(p, LastSlash(p) + 1, Len(p))]

\* the end of the path element that begins at offset r
RECURSIVE ElemEnd(_, _)
ElemEnd(p, r) == IF r < Len(p) /\ p[r + 1] # "/" THEN ElemEnd(p, r + 1) ELSE r

\* out.w-- ; for out.w > dotdot && out.index(out.w) != '/' { out.w-- }
RECURSIVE Backtrack(_, _, _)
Backtrack(out, w, dotdot) ==
    IF w > dotdot /\ out[w + 1] # "/" THEN Backtrack(out, w - 1, dotdot) ELSE w

\* one turn of the scanning loop of filepath.Clean: c.r is the read offset,
\* c.out the buffer, c.dotdot the offset below which ".." cannot back up
CleanStep(p, rooted, c) ==
    LET n == Len(p)
        r == c.r
        out == c.out
    IN  IF p[r + 1] = "/" THEN [c EXCEPT !.r = r + 1]
        ELSE IF p[r + 1] = "." /\ (r + 1 = n \/ p[r + 2] = "/") THEN [c EXCEPT !.r = r + 1]
        ELSE IF p[r + 1] = "." /\ p[r + 2] = "." /\ (r + 2 = n \/ p[r + 3] = "/")
             THEN IF Len(out) > c.dotdot
                  THEN [c EXCEPT !.r = r + 2,
                                 !.out = SubSeq(out, 1, Backtrack(out, Len(out) - 1, c.dotdot))]
                  ELSE IF ~rooted
                       THEN [r |-> r + 2,
                             out |-> (IF Len(out) > 0 THEN out \o SL ELSE out) \o <<".", ".">>,
                             dotdot |-> (IF Len(out) > 0 THEN Len(out) + 1 ELSE 0) + 2]
                       ELSE [c EXCEPT !.r = r + 2]
        ELSE [c EXCEPT !.r = ElemEnd(p, r),
                       !.out = (IF (rooted /\ Len(out) # 1) \/ (~rooted /\ Len(out) # 0)
                                THEN out \o SL ELSE out) \o SubSeq(p, r + 1, ElemEnd(p, r))]

\* for r < n {...}
RECURSIVE CleanLoop(_, _, _)
CleanLoop(p, rooted, c) ==
    IF c.r >= Len(p) THEN c.out
    ELSE The({CleanLoop(p, rooted, d) : d \in {CleanStep(p, rooted, c)}})

\* filepath.Clean
Clean(p) ==
    IF p = <<>> THEN <<".">>
    ELSE LET rooted == p[1] = "/"
             out == IF rooted THEN CleanLoop(p, TRUE, [r |-> 1, out |-> SL, dotdot |-> 1])
                    ELSE CleanLoop(p, FALSE, [r |-> 0, out |-> <<>>, dotdot |-> 0])
         IN  The({IF o = <<>> THEN <<".">> ELSE o : o \in {out}})

RECURSIVE JoinWithSlash(_)
JoinWithSlash(elems) ==
    IF Len(elems) = 1 THEN elems[1]
    ELSE elems[1] \o SL \o JoinWithSlash(Tail(elems))

\* filepath.Join: the elements from the first non-empty one on, joined, cleaned
RECURSIVE Join(_)
Join(elems) ==
    IF elems = <<>> THEN <<>>
    ELSE IF Head(elems) = <<>> THEN Join(Tail(elems))
    ELSE The({Clean(p) : p \in {JoinWithSlash(elems)}})

\* the directory Download creates for a key
LocalDir(destination, bucket, key, options) ==
    The({Join(<<destination, bucket, Split(t).dir>>) : t \in {Transform(key, options)}})

\* filename := filepath.Join(destination, s3Backend.Bucket, dir, transformed)
LocalPath(destination, bucket, key, options) ==
    The({Join(<<destination, bucket, Split(t).dir, Split(t).file>>) :
           t \in {Transform(key, options)}})

\* fmt.Sprintf("arn:aws:s3:::%s/%s", s3Backend.Bucket, key); the fixed prefix
\* is kept as one element
RemoteRef(bucket, key) ==
    <<"arn:aws:s3:::">> \o bucket \o SL \o key

\* ---------------------------------------------------------------- file system

\* content of a file that was created but never written
EMPTY == [kind |-> "empty"]
\* content of a file whose transfer stopped part way
PARTIAL == [kind |-> "partial"]

\* update of a Go map
Put(m, k, v) == [x \in (DOMAIN m) \cup {k} |-> IF x = k THEN v ELSE m[x]]

EmptyMap == [x \in {} |-> NIL]

\* directories that exist without having been created: "/", "." and chains of ".."
ImplicitDir(p) ==
    \/ p = SL
    \/ p = <<".">>
    \/ /\ Len(p) % 3 = 2
       /\ \A n \in 1..Len(p) : p[n] = (IF n % 3 = 0 THEN "/" ELSE ".")

IsDir(dirs, p) == p \in dirs \/ ImplicitDir(p)

\* the parent MkdirAll recurses into: path[:j-1], none (empty) when j <= 1
ParentOf(p) ==
    LET j == LastSlash(p)
    IN  IF j > 1 THEN SubSeq(p, 1, j - 1) ELSE <<>>

\* os.Stat: NIL when the path exists, else the errno
RECURSIVE StatErr(_, _, _)
StatErr(dirs, files, p) ==
    IF IsDir(dirs, p) \/ p \in DOMAIN files THEN NIL
    ELSE LET par == ParentOf(p)
         IN  IF par = <<>> THEN "ENOENT"
             ELSE IF par \in DOMAIN files THEN "ENOTDIR"
             ELSE IF IsDir(dirs, par) THEN "ENOENT"
             ELSE StatErr(dirs, files, par)

\* os.IsNotExist(err)
IsNotExist(err) == err = "ENOENT"

\* os.MkdirAll: the error (NIL when none) and the directories afterwards; on
\* the empty path Stat fails, there is no parent and Mkdir("") fails
RECURSIVE MkdirAll(_, _, _)
MkdirAll(dirs, files, p) ==
    IF StatErr(dirs, files, p) = NIL
    THEN IF IsDir(dirs, p) THEN [err |-> NoErr, dirs |-> dirs]
         ELSE [err |-> [op |-> "mkdir", path |-> p], dirs |-> dirs]
    ELSE IF p = <<>> THEN [err |-> [op |-> "mkdir", path |-> p], dirs |-> dirs]
    ELSE The({IF up.err # NoErr THEN up ELSE [err |-> NoErr, dirs |-> up.dirs \cup {p}] :
                up \in {IF ParentOf(p) = <<>> THEN [err |-> NoErr, dirs |-> dirs]
                        ELSE MkdirAll(dirs, files, ParentOf(p))}})

\* os.OpenFile(filename, O_WRONLY|O_CREATE, 0666): a directory cannot be opened
\* for writing, an existing file keeps its content, a missing one is created
OpenFile(dirs, files, p) ==
    IF IsDir(dirs, p) THEN [err |-> [op |-> "open", path |-> p], files |-> files]
    ELSE IF p \in DOMAIN files THEN [err |-> NoErr, files |-> files]
    ELSE [err |-> NoErr, files |-> Put(files, p, EMPTY)]

\* ---------------------------------------------------------------- Download

\* line 71 without the test of the file: nothing is ever left out
SkipExisting_Never(dirs, files, filename, options) == FALSE

\* the condition under which a key is left out of the batch (line 71); it reads
\* options.Overwrite only when the file exists
SkipExisting(dirs, files, filename, options) ==
    ~IsNotExist(StatErr(dirs, files, filename)) /\ ~options.Overwrite

\* one turn of the loop over s3Backend.Keys (lines 53-88) for the key numbered
\* st.k: st carries filenames, objects and the file system; st.err is the
\* error of an early return, st.fault says that a nil options was read
DownloadKey(backend, destination, options, st, filename, mk) ==
    LET named == [st EXCEPT !.k = @ + 1, !.dirs = mk.dirs,
                            !.filenames = Put(@, filename,
                                              RemoteRef(backend.Bucket, backend.Keys[st.k]))]
        exists == ~IsNotExist(StatErr(mk.dirs, st.files, filename))
        op == OpenFile(mk.dirs, st.files, filename)
    IN  IF mk.err # NoErr THEN [st EXCEPT !.err = mk.err]
        ELSE IF exists /\ options = NilOptions THEN [named EXCEPT !.fault = TRUE]
        ELSE IF exists /\ SkipExisting(mk.dirs, st.files, filename, options) THEN named
        ELSE IF op.err # NoErr THEN [named EXCEPT !.err = op.err]
        ELSE [named EXCEPT !.files = op.files,
                           !.objects = Append(@, [Bucket |-> backend.Bucket,
                                                  Key |-> backend.Keys[st.k],
                                                  Writer |-> filename])]

\* for _, key := range s3Backend.Keys {...}
RECURSIVE DownloadKeys(_, _, _, _)
DownloadKeys(backend, destination, options, st) ==
    IF st.k > Len(backend.Keys) \/ st.err # NoErr \/ st.fault THEN st
    ELSE The({DownloadKeys(backend, destination, options, n) :
                n \in {DownloadKey(backend, destination, options, st, filename, mk) :
                         filename \in {LocalPath(destination, backend.Bucket,
                                                 backend.Keys[st.k], options)},
                         mk \in {MkdirAll(st.dirs, st.files,
                                          LocalDir(destination, backend.Bucket,
                                                   backend.Keys[st.k], options))}}})

\* lines 51-88: the state Download is in when it reaches the batched retrieval
Enqueue(backend, destination, options, dirs, files) ==
    DownloadKeys(backend, destination, options,
                 [k |-> 1, filenames |-> EmptyMap, objects |-> <<>>, dirs |-> dirs,
                  files |-> files, err |-> NoErr, fault |-> FALSE])

\* ---------------------------------------------------------------- state documents

\* A document is [kind |-> "doc", envelope, Modules]: envelope says whether
\* statefile.Read accepts it; Modules, each module's resources and each
\* resource's Instances are Go maps, written here as sequences in the order
\* of the document. An instance is [Current, blob, id, arn]: whether it has a
\* current generation, whether its attrs_json decodes to a JSON object, and
\* what decoded["id"] and decoded["arn"] then hold.

\* decoded[k] of a key that is absent or null
Absent == [t |-> "nil"]
\* decoded[k] of a number, boolean, array or object
NonString == [t |-> "other"]
\* decoded[k] of a JSON string
Str(v) == [t |-> "string", v |-> v]

\* the resource types kept without an arn (lines 217-223)
ArnLessTypes == {"aws_iam_access_key", "aws_route53_record", "aws_route53_zone"}

\* the switch of lines 216-226 for an instance without arn: keep it or drop it
KeptWithoutArn(type) == type \in ArnLessTypes

\* all orders a range over a Go map with these entries can take
Perms(seq) ==
    {[n \in 1..Len(seq) |-> seq[f[n]]] : f \in Permutations(1..Len(seq))}

\* one choice from each set of sequences, concatenated
RECURSIVE Concats(_)
Concats(sets) ==
    IF sets = <<>> THEN {<<>>}
    ELSE {a \o b : a \in Head(sets), b \in Concats(Tail(sets))}

\* the instances of a resource, each with the resource's type, in any order
InstanceOrders(resource) ==
    Perms([n \in 1..Len(resource.Instances) |->
             [Type |-> resource.Type, inst |-> resource.Instances[n]]])

ResourceOrders(module) ==
    UNION {Concats([n \in 1..Len(o) |-> InstanceOrders(o[n])]) : o \in Perms(module)}

\* every sequence in which the three nested loops of lines 198-200 can visit
\* the instances of a document
VisitOrders(doc) ==
    UNION {Concats([n \in 1..Len(o) |-> ResourceOrders(o[n])]) : o \in Perms(doc.Modules)}

\* the body of the loops (lines 201-228) over the instances still to visit:
\* the descriptors, the error returned, and whether a type assertion failed
RECURSIVE DecodeInstances(_, _)
DecodeInstances(todo, output) ==
    IF todo = <<>> THEN [resources |-> output, err |-> NoErr, fault |-> FALSE]
    ELSE
      LET type == Head(todo).Type
          inst == Head(todo).inst
      IN  IF ~inst.Current THEN DecodeInstances(Tail(todo), output)
          ELSE IF ~inst.blob THEN [resources |-> output, err |-> [op |-> "attrs"], fault |-> FALSE]
          ELSE IF inst.id.t # "string" THEN [resources |-> output, err |-> NoErr, fault |-> TRUE]
          ELSE IF inst.arn = Absent
               THEN IF KeptWithoutArn(type)
                    THEN DecodeInstances(Tail(todo), Append(output, [ID |-> inst.id.v, ARN |-> ""]))
                    ELSE DecodeInstances(Tail(todo), output)
          ELSE IF inst.arn.t # "string" THEN [resources |-> output, err |-> NoErr, fault |-> TRUE]
          ELSE DecodeInstances(Tail(todo), Append(output, [ID |-> inst.id.v, ARN |-> inst.arn.v]))

\* LoadStateFromFile: every outcome it can have on this file system
LoadStateFromFile(dirs, files, filename) ==
    IF filename \notin DOMAIN files
    THEN {[resources |-> <<>>, err |-> [op |-> IF IsDir(dirs, filename) THEN "read" ELSE "open"],
           fault |-> FALSE]}
    ELSE IF files[filename].kind # "doc" \/ ~files[filename].envelope
         THEN {[resources |-> <<>>, err |-> [op |-> "read"], fault |-> FALSE]}
    ELSE {DecodeInstances(o, <<>>) : o \in VisitOrders(files[filename])}

\* resource.UniqueID()
UniqueID(resource) == resource.ID

\* ---------------------------------------------------------------- the remote store

BucketX == <<"x">>
BucketY == <<"y">>
KeyA == <<"a">>
KeyAB == <<"a", "/", "b">>
KeyA_B == <<"a", "_", "b">>

Inst(id, arn) == [Current |-> TRUE, blob |-> TRUE, id |-> id, arn |-> arn]
Deposed == [Current |-> FALSE, blob |-> TRUE, id |-> Absent, arn |-> Absent]
BadBlob == [Current |-> TRUE, blob |-> FALSE, id |-> Absent, arn |-> Absent]

Doc(modules) == [kind |-> "doc", envelope |-> TRUE, Modules |-> modules]

\* x/a: one instance, i-1
DocXA == Doc(<< << [Type |-> "aws_instance", Instances |-> <<Inst(Str("i-1"), Str("arn-1"))>>] >> >>)

\* x/a/b: an instance whose attributes have no id
DocXAB == Doc(<< << [Type |-> "aws_instance", Instances |-> <<Inst(Absent, Str("arn-5"))>>] >> >>)

\* y/a/b: i-1 again, an instance dropped for want of an arn, a zone kept without one
DocYAB ==
    Doc(<< << [Type |-> "aws_instance",
               Instances |-> <<Inst(Str("i-1"), Str("arn-2")), Inst(Str("i-2"), Absent)>>] >>,
           << [Type |-> "aws_route53_zone", Instances |-> <<Inst(Str("i-3"), Absent), Deposed>>] >> >>)

\* y/a_b: a good instance and one whose attribute blob is malformed
DocYA_B ==
    Doc(<< << [Type |-> "aws_instance", Instances |-> <<Inst(Str("i-4"), Str("arn-4")), BadBlob>>] >> >>)

\* y/a: a file that is no state document
DocYA == [kind |-> "doc", envelope |-> FALSE, Modules |-> <<>>]

\* the object the store holds under a bucket and key
S3Object(bucket, key) ==
    CASE bucket = BucketX /\ key = KeyA -> DocXA
      [] bucket = BucketY /\ key = KeyA -> DocYA
      [] bucket = BucketX /\ key = KeyAB -> DocXAB
      [] bucket = BucketY /\ key = KeyAB -> DocYAB
      [] bucket = BucketY /\ key = KeyA_B -> DocYA_B
      [] OTHER -> [kind |-> "doc", envelope |-> FALSE, Modules |-> <<>>]

\* ---------------------------------------------------------------- configurations

BackendA == [Bucket |-> BucketX, Keys |-> <<KeyA>>]
BackendB == [Bucket |-> BucketY, Keys |-> <<KeyAB, KeyA_B>>]
BackendC == [Bucket |-> BucketX, Keys |-> <<KeyA, KeyAB>>]

BackendD == [Bucket |-> BucketY, Keys |-> <<KeyA>>]

Backends == {BackendA, BackendB, BackendC, BackendD}

\* the backend lists drawn: up to MaxBackends different backends, in any order
BackendLists ==
    UNION {{l \in [1..n -> Backends] : \A a, b \in 1..n : l[a] = l[b] => a = b} :
             n \in 0..MaxBackends}

DefaultOptions == [PathSubstitutions |-> <<>>, Overwrite |-> FALSE]

OptionsChoices ==
    {NilOptions,
     [PathSubstitutions |-> <<>>, Overwrite |-> TRUE],
     [PathSubstitutions |-> <<[Old |-> SL, New |-> <<"_">>]>>, Overwrite |-> FALSE]}

Destinations == {<<>>, <<"d">>}

\* what json.Unmarshal leaves in the exported field StateFilenames: nothing,
\* or the entries the configuration file gives under that name
LoadedMaps == {EmptyMap, Put(EmptyMap, <<"f">>, <<"arn:x">>)}

\* ---------------------------------------------------------------- DownloadWithIterator

\* the writes of the batched retrieval, object by object: an object that is
\* retrieved replaces the content of its file, one that fails leaves the file
\* as it was or, when the transfer broke off, partly written
RECURSIVE Transfer(_, _, _, _, _)
Transfer(objects, n, failed, partial, files) ==
    IF n > Len(objects) THEN files
    ELSE The({Transfer(objects, n + 1, failed, partial, f) :
                f \in {Put(files, objects[n].Writer,
                           IF n \notin failed THEN S3Object(objects[n].Bucket, objects[n].Key)
                           ELSE IF partial THEN PARTIAL ELSE files[objects[n].Writer])}})

\* the error of a batch: nil when every object was retrieved
BatchErr(objects, failed) ==
    IF failed = {} THEN NoErr
    ELSE [op |-> "BatchedDownloadIncomplete",
          objects |-> {[Bucket |-> objects[n].Bucket, Key |-> objects[n].Key] : n \in failed}]

\* S3Backend.Download, for a batch in which the objects numbered in failed fail
\* lines 90-99 from the state the loop over the keys ended in
Retrieve(st, failed, partial) ==
    LET issued == ~st.fault /\ st.err = NoErr /\ Len(st.objects) > 0
        berr == IF issued THEN BatchErr(st.objects, failed) ELSE NoErr
    IN  [filenames |-> IF st.fault \/ st.err # NoErr \/ berr # NoErr THEN EmptyMap ELSE st.filenames,
         err |-> IF st.err # NoErr THEN st.err ELSE berr,
         fault |-> st.fault,
         dirs |-> st.dirs,
         files |-> IF issued THEN Transfer(st.objects, 1, failed, partial, st.files) ELSE st.files,
         objects |-> st.objects,
         issued |-> issued]

\* the batch sizes Download can reach from this file system
BatchSize(backend, destination, options, dirs, files) ==
    Len(Enqueue(backend, destination, options, dirs, files).objects)

Download(backend, destination, options, dirs, files, failed, partial) ==
    The({Retrieve(st, failed, partial) :
           st \in {Enqueue(backend, destination, options, dirs, files)}})

\* ---------------------------------------------------------------- TerraformBackends

VARIABLES
    Destination,     \* t.Destination
    Options,         \* t.Options
    S3,              \* t.S3
    StateFilenames,  \* t.StateFilenames
    dirs,            \* the directories on disk
    files,           \* the files on disk and their content
    pc,              \* "idle", "pull" (inside Pull's loop) or "fault" (the process died)
    i,               \* the backend Pull's loop is at
    pulls,           \* calls of Pull so far
    verifyRet,       \* what the last call of Verify returned
    pullRet,         \* what the last call of Pull returned
    downloads,       \* the calls of Download made by the current or last Pull
    history,         \* one record per Pull that returned
    managed,         \* the index Load returned, if called since the last Pull
    loadRet,         \* the error Load returned, if called since the last Pull
    call,            \* a single function called on its own: its inputs and its result
    report,          \* the IAM report that runs: "users-and-access-keys", "policies" or "none"
    account,         \* what the IAM service lists: [Principals, listErr]
    result,          \* the ReportResult of the report: [Resources, Error]
    arns,            \* the ARNs to generate last-accessed details for
    accessKeys,      \* the access keys set aside by IAMListUsersAndAccessKeys
    jobIds,          \* the jobs GenerateServiceLastAccessedDetails returned
    jobi,            \* i of AttachServiceLastAccessedDetails (from 0)
    log,             \* the polls made so far: [job, status]
    rpc              \* where the report is: "start", "generate", "attach", "returned", "fault"

tvars == <<Destination, Options, S3, StateFilenames, dirs, files, pc, i, pulls,
           verifyRet, pullRet, downloads, history, managed, loadRet>>

ivars == <<report, account, result, arns, accessKeys, jobIds, jobi, log, rpc>>

vars == <<tvars, call, ivars>>

\* no report runs
NoReport ==
    /\ report = "none"
    /\ account = [Principals |-> <<>>, listErr |-> NoErr]
    /\ result = [Resources |-> <<>>, Error |-> NoErr]
    /\ arns = <<>>
    /\ accessKeys = <<>>
    /\ jobIds = <<>>
    /\ jobi = 0
    /\ log = <<>>
    /\ rpc = "none"

NoCall == [op |-> "none"]

NotCalled == [op |-> "not called"]

\* Verify without the test of the destination
Verify_NoDestination(destination, s3, options) ==
    IF Len(s3) = 0 THEN [err |-> [op |-> "s3 field is empty"], Options |-> options]
    ELSE [err |-> NoErr, Options |-> IF options = NilOptions THEN DefaultOptions ELSE options]

\* Verify without the default for nil options
Verify_KeepsNil(destination, s3, options) ==
    IF Len(destination) = 0 THEN [err |-> [op |-> "Destination field is empty"], Options |-> options]
    ELSE IF Len(s3) = 0 THEN [err |-> [op |-> "s3 field is empty"], Options |-> options]
    ELSE [err |-> NoErr, Options |-> options]

\* TerraformBackends.Verify: the error and the options it leaves
Verify(destination, s3, options) ==
    IF Len(destination) = 0 THEN [err |-> [op |-> "Destination field is empty"], Options |-> options]
    ELSE IF Len(s3) = 0 THEN [err |-> [op |-> "s3 field is empty"], Options |-> options]
    ELSE [err |-> NoErr, Options |-> IF options = NilOptions THEN DefaultOptions ELSE options]

Init ==
    /\ Destination \in Destinations
    /\ Options \in OptionsChoices
    /\ S3 \in BackendLists
    /\ StateFilenames \in LoadedMaps
    /\ dirs = {}
    /\ files = EmptyMap
    /\ pc = "idle"
    /\ i = 0
    /\ pulls = 0
    /\ verifyRet = NotCalled
    /\ pullRet = NotCalled
    /\ downloads = <<>>
    /\ history = <<>>
    /\ managed = EmptyMap
    /\ loadRet = NotCalled
    /\ call = NoCall
    /\ NoReport

\* a call of Verify from outside Pull
VerifyCall ==
    /\ pc = "idle"
    /\ verifyRet' = Verify(Destination, S3, Options).err
    /\ Options' = Verify(Destination, S3, Options).Options
    /\ UNCHANGED <<call, ivars, Destination, S3, StateFilenames, dirs, files, pc, i, pulls, pullRet,
                   downloads, history, managed, loadRet>>

\* what a Pull that returns leaves in history
Returned(ret, map, dl, opts) ==
    [ret |-> ret, StateFilenames |-> map, downloads |-> dl, options |-> opts]

\* Pull on a configuration Verify rejects: lines 131-133
PullInvalid ==
    /\ pc = "idle"
    /\ pulls < MaxPulls
    /\ Verify(Destination, S3, Options).err # NoErr
    /\ Options' = Verify(Destination, S3, Options).Options
    /\ pulls' = pulls + 1
    /\ pullRet' = NoErr
    /\ downloads' = <<>>
    /\ history' = Append(history, Returned(NoErr, StateFilenames, <<>>, Options))
    /\ managed' = EmptyMap
    /\ loadRet' = NotCalled
    /\ UNCHANGED <<call, ivars, Destination, S3, StateFilenames, dirs, files, pc, i, verifyRet>>

\* Pull on a valid configuration, up to the loop: lines 131-135
PullBegin ==
    /\ pc = "idle"
    /\ pulls < MaxPulls
    /\ Verify(Destination, S3, Options).err = NoErr
    /\ Options' = Verify(Destination, S3, Options).Options
    /\ pulls' = pulls + 1
    /\ StateFilenames' = EmptyMap
    /\ pc' = "pull"
    /\ i' = 1
    /\ pullRet' = NotCalled
    /\ downloads' = <<>>
    /\ managed' = EmptyMap
    /\ loadRet' = NotCalled
    /\ UNCHANGED <<call, ivars, Destination, S3, dirs, files, verifyRet, history>>

\* for filename, s3 := range filenames { t.StateFilenames[filename] = s3 }
Merge(map, filenames) ==
    [x \in (DOMAIN map) \cup (DOMAIN filenames) |->
        IF x \in DOMAIN filenames THEN filenames[x] ELSE map[x]]

Called(k, d) == [backend |-> k, options |-> Options, objects |-> d.objects,
                 issued |-> d.issued, err |-> d.err, fault |-> d.fault]

\* one turn of Pull's loop in which Download returns no error (lines 137-143),
\* or does not return because it read the Overwrite of nil options (line 71)
PullDownload ==
    /\ pc = "pull"
    /\ i <= Len(S3)
    /\ \E d \in {Download(S3[i], Destination, Options, dirs, files, {}, FALSE)} :
           /\ d.err = NoErr
           /\ dirs' = d.dirs
           /\ files' = d.files
           /\ StateFilenames' = Merge(StateFilenames, d.filenames)
           /\ downloads' = Append(downloads, Called(i, d))
           /\ pc' = IF d.fault THEN "fault" ELSE "pull"
           /\ i' = IF d.fault THEN i ELSE i + 1
    /\ UNCHANGED <<call, ivars, Destination, Options, S3, pulls, verifyRet, pullRet, history,
                   managed, loadRet>>

\* Pull's loop going on to the next backend after an error of Download
PullDownloadError_Continue ==
    /\ pc = "pull"
    /\ i <= Len(S3)
    /\ \E failed \in SUBSET (1..BatchSize(S3[i], Destination, Options, dirs, files)),
          partial \in BOOLEAN :
         \E d \in {Download(S3[i], Destination, Options, dirs, files, failed, partial)} :
             /\ ~d.fault
             /\ d.err # NoErr
             /\ failed = {} => ~partial
             /\ dirs' = d.dirs
             /\ files' = d.files
             /\ downloads' = Append(downloads, Called(i, d))
    /\ i' = i + 1
    /\ UNCHANGED <<call, ivars, Destination, Options, S3, StateFilenames, pc, pulls, verifyRet,
                   pullRet, history, managed, loadRet>>

\* one turn of Pull's loop in which Download returns an error, which Pull
\* returns: lines 137-140
PullDownloadError ==
    /\ pc = "pull"
    /\ i <= Len(S3)
    /\ \E failed \in SUBSET (1..BatchSize(S3[i], Destination, Options, dirs, files)),
          partial \in BOOLEAN :
         \E d \in {Download(S3[i], Destination, Options, dirs, files, failed, partial)} :
             /\ ~d.fault
             /\ d.err # NoErr
             /\ failed = {} => ~partial
             /\ dirs' = d.dirs
             /\ files' = d.files
             /\ downloads' = Append(downloads, Called(i, d))
             /\ pullRet' = d.err
             /\ history' = Append(history, Returned(d.err, StateFilenames,
                                                    Append(downloads, Called(i, d)), Options))
    /\ pc' = "idle"
    /\ UNCHANGED <<call, ivars, Destination, Options, S3, StateFilenames, i, pulls, verifyRet,
                   managed, loadRet>>

\* the end of Pull's loop: line 145
PullReturn ==
    /\ pc = "pull"
    /\ i > Len(S3)
    /\ pc' = "idle"
    /\ pullRet' = NoErr
    /\ history' = Append(history, Returned(NoErr, StateFilenames, downloads, Options))
    /\ UNCHANGED <<call, ivars, Destination, Options, S3, StateFilenames, dirs, files, i, pulls,
                   verifyRet, downloads, managed, loadRet>>

\* every order in which a range over a Go map with these keys can run
RECURSIVE OrdersOf(_)
OrdersOf(set) ==
    IF set = {} THEN {<<>>}
    ELSE UNION {{<<x>> \o o : o \in OrdersOf(set \ {x})} : x \in set}

\* for _, resource := range resources { managed[resource.UniqueID()] = s3 }
RECURSIVE IndexResources(_, _, _)
IndexResources(index, resources, s3) ==
    IF resources = <<>> THEN index
    ELSE IndexResources(Put(index, UniqueID(Head(resources)), s3), Tail(resources), s3)

\* Load's loop without the continue of line 156
RECURSIVE LoadFrom_NoContinue(_, _, _, _)
LoadFrom_NoContinue(order, index, map, decoded) ==
    IF order = <<>> THEN {[managed |-> index, fault |-> FALSE]}
    ELSE UNION {
           IF o.fault THEN {[managed |-> index, fault |-> TRUE]}
           ELSE LoadFrom_NoContinue(Tail(order),
                                    IndexResources(index, o.resources, map[Head(order)]),
                                    map, decoded)
           : o \in decoded[Head(order)]}

\* the loop of Load over the entries still to visit: every result it can end
\* with, a result being the index and whether a decode brought the process down
RECURSIVE LoadFrom(_, _, _, _)
LoadFrom(order, index, map, decoded) ==
    IF order = <<>> THEN {[managed |-> index, fault |-> FALSE]}
    ELSE UNION {
           IF o.fault THEN {[managed |-> index, fault |-> TRUE]}
           ELSE IF o.err # NoErr THEN LoadFrom(Tail(order), index, map, decoded)
           ELSE LoadFrom(Tail(order), IndexResources(index, o.resources, map[Head(order)]),
                         map, decoded)
           : o \in decoded[Head(order)]}

\* what LoadStateFromFile can return for each file of the map
Decoded(map, ds, fs) ==
    [f \in DOMAIN map |-> LoadStateFromFile(ds, fs, f)]

\* TerraformBackends.Load: every result it can have
LoadResults(map, ds, fs) ==
    UNION {LoadFrom(order, EmptyMap, map, decoded) :
             order \in OrdersOf(DOMAIN map), decoded \in {Decoded(map, ds, fs)}}

\* a call of Load that returns
Load ==
    /\ pc = "idle"
    /\ \E r \in LoadResults(StateFilenames, dirs, files) :
         /\ ~r.fault
         /\ managed' = r.managed
    /\ loadRet' = NoErr
    /\ UNCHANGED <<call, ivars, Destination, Options, S3, StateFilenames, dirs, files, pc, i, pulls,
                   verifyRet, pullRet, downloads, history>>

\* a call of Load in which LoadStateFromFile fails a type assertion
LoadFault ==
    /\ pc = "idle"
    /\ \E r \in LoadResults(StateFilenames, dirs, files) : r.fault
    /\ pc' = "fault"
    /\ UNCHANGED <<call, ivars, Destination, Options, S3, StateFilenames, dirs, files, i, pulls,
                   verifyRet, pullRet, downloads, history, managed, loadRet>>

Next ==
    \/ VerifyCall
    \/ PullInvalid
    \/ PullBegin
    \/ PullDownload
    \/ PullDownloadError
    \/ PullReturn
    \/ Load
    \/ LoadFault

Spec == Init /\ [][Next]_vars

\* ---------------------------------------------------------------- single calls

\* the state of a TerraformBackends nothing is called on
Untouched ==
    /\ Destination = <<"d">>
    /\ Options = NilOptions
    /\ S3 = <<>>
    /\ StateFilenames = EmptyMap
    /\ dirs = {}
    /\ files = EmptyMap
    /\ pc = "idle"
    /\ i = 0
    /\ pulls = 0
    /\ verifyRet = NotCalled
    /\ pullRet = NotCalled
    /\ downloads = <<>>
    /\ history = <<>>
    /\ managed = EmptyMap
    /\ loadRet = NotCalled

KeyChars == {"a", "/", "."}

\* the keys drawn: every string of up to MaxLen characters
DrawnKeys == UNION {[1..n -> KeyChars] : n \in 0..MaxLen}

\* the rules drawn: one that deletes, one whose old is a pattern character, one
\* whose occurrences overlap, one with an empty old, one whose new holds its old
DrawnRules ==
    {[Old |-> SL, New |-> <<>>],
     [Old |-> <<".">>, New |-> SL],
     [Old |-> <<"a", "a">>, New |-> <<"a">>],
     [Old |-> <<>>, New |-> SL],
     [Old |-> <<"a">>, New |-> <<".", "a">>]}

\* the option sets drawn: every list of up to MaxRules rules
DrawnOptions ==
    {[PathSubstitutions |-> l, Overwrite |-> FALSE] :
       l \in UNION {[1..n -> DrawnRules] : n \in 0..MaxRules}}

\* the rules and the key of the example of the specification
ExampleOptions ==
    [PathSubstitutions |-> <<[Old |-> SL, New |-> <<"_">>],
                             [Old |-> <<"_", "v", "2">>, New |-> <<>>]>>,
     Overwrite |-> FALSE]

ExampleKey == <<"a", "/", "b", "_", "v", "2">>

PathCall(destination, bucket, key, options) ==
    [op |-> "path", destination |-> destination, bucket |-> bucket, key |-> key,
     options |-> options, done |-> FALSE, transformed |-> <<>>, dir |-> <<>>, path |-> <<>>]

InitPath ==
    /\ Untouched
    /\ NoReport
    /\ call \in {PathCall(<<"d">>, BucketX, k, o) : k \in DrawnKeys, o \in DrawnOptions}
                \cup {PathCall(d, BucketX, k, ExampleOptions) :
                        d \in {<<"d">>, <<"/", "d", "/">>, <<".">>},
                        k \in {ExampleKey, KeyAB, <<"_", "v", "2", "/", "/", "a">>}}

\* lines 55-68 of Download for one key
LocalPathCall ==
    /\ call.op = "path"
    /\ ~call.done
    /\ call' = [call EXCEPT
                  !.done = TRUE,
                  !.transformed = Transform(call.key, call.options),
                  !.dir = LocalDir(call.destination, call.bucket, call.key, call.options),
                  !.path = LocalPath(call.destination, call.bucket, call.key, call.options)]
    /\ UNCHANGED <<tvars, ivars>>

SpecPath == InitPath /\ [][LocalPathCall]_vars

DrawnTypes == {"aws_instance", "aws_iam_access_key", "aws_route53_zone"}

DrawnInstances ==
    {Deposed, BadBlob, Inst(Str("i-1"), Str("arn-1")), Inst(Str("i-2"), Absent),
     Inst(Absent, Absent), Inst(NonString, Str("arn-1")), Inst(Str("i-1"), NonString)}

ResourcesOfSize(n) ==
    {[Type |-> t, Instances |-> s] : t \in DrawnTypes, s \in [1..n -> DrawnInstances]}

\* the modules with n instances in all, no resource being empty
RECURSIVE ModulesOfSize(_)
ModulesOfSize(n) ==
    IF n = 0 THEN {<<>>}
    ELSE UNION {{<<r>> \o rest : r \in ResourcesOfSize(j), rest \in ModulesOfSize(n - j)} :
                  j \in 1..n}

\* the module lists with n instances in all, no module being empty
RECURSIVE ModuleListsOfSize(_)
ModuleListsOfSize(n) ==
    IF n = 0 THEN {<<>>}
    ELSE UNION {{<<m>> \o rest : m \in ModulesOfSize(j), rest \in ModuleListsOfSize(n - j)} :
                  j \in 1..n}

\* the documents drawn: every document of up to max instances, and one that
\* statefile.Read rejects
DrawnDocs(max) ==
    {Doc(ms) : ms \in UNION {ModuleListsOfSize(n) : n \in 0..max}} \cup {DocYA}

NoOutcome == [resources |-> <<>>, err |-> NotCalled, fault |-> FALSE]

InitDecode ==
    /\ Untouched
    /\ NoReport
    /\ call \in {[op |-> "decode", doc |-> d, done |-> FALSE, out |-> NoOutcome] : d \in DrawnDocs(MaxInstances)}

\* LoadStateFromFile on a file that holds the document
LoadStateFromFileCall ==
    /\ call.op = "decode"
    /\ ~call.done
    /\ \E o \in LoadStateFromFile({}, (<<"f">> :> call.doc), <<"f">>) :
         call' = [call EXCEPT !.done = TRUE, !.out = o]
    /\ UNCHANGED <<tvars, ivars>>

SpecDecode == InitDecode /\ [][LoadStateFromFileCall]_vars

\* ---------------------------------------------------------------- IAM reports

\* A resource of a report is [ID, ARN, Type, ServiceLastAccessed]. ARNs and
\* IDs are sequences of strings, <<>> for the empty string. The last field is
\* Metadata["ServiceLastAccessed"] and Metadata["LastUsed"]: the ARN the
\* details were generated for, or <<>> as long as none are attached.
\* An inline policy or a policy version is what the service answers for it:
\* "ok", "getfail" (the Get call fails) or "baddoc" (the document does not
\* decode). listErr is the error of the paginated request itself.

ErrGet == [op |-> "Get failed"]

ErrDecode == [op |-> "DecodeInlinePolicyDocument failed"]

ErrList == [op |-> "list request failed"]

ErrGenerate == [op |-> "GenerateServiceLastAccessedDetails failed"]

ErrPoll == [op |-> "GetServiceLastAccessedDetails failed"]

ReportResource(id, arn, type) ==
    [ID |-> id, ARN |-> arn, Type |-> type, ServiceLastAccessed |-> <<>>]

\* the name of the n-th item a call lists
ItemName(n) == <<"n1", "n2", "n3", "n4">>[n]

\* the value a paginated call returns: the error of a request, unless the
\* callback stopped the pagination before that request was made
PagesErr(stopped, listErr) == IF stopped THEN NoErr ELSE listErr

\* one turn of the loop of a callback over inline policies or policy
\* versions: st is [n, Resources, Error, stopped]
PolicyStep(owner, type, items, st) ==
    IF items[st.n] = "getfail" THEN [st EXCEPT !.Error = ErrGet, !.stopped = TRUE]
    ELSE IF items[st.n] = "baddoc" THEN [st EXCEPT !.Error = ErrDecode, !.stopped = TRUE]
    ELSE [st EXCEPT !.n = @ + 1,
                    !.Resources = Append(@, ReportResource(owner \o <<ItemName(st.n)>>,
                                                           IF type = "policy-version"
                                                           THEN owner \o <<ItemName(st.n)>>
                                                           ELSE <<>>,
                                                           type))]

\* the callback over the page: what it leaves in result, and whether it
\* returned false
RECURSIVE PolicyLoop(_, _, _, _)
PolicyLoop(owner, type, items, st) ==
    IF st.n > Len(items) \/ st.stopped THEN st
    ELSE The({PolicyLoop(owner, type, items, n) : n \in {PolicyStep(owner, type, items, st)}})

PolicyCallback(owner, type, items) ==
    PolicyLoop(owner, type, items, [n |-> 1, Resources |-> <<>>, Error |-> NoErr, stopped |-> FALSE])

\* IAMListUserPolicies: line 84 assigns what the paginated call returned
IAMListUserPolicies(userARN, items, listErr) ==
    The({[Resources |-> cb.Resources, Error |-> PagesErr(cb.stopped, listErr)] :
           cb \in {PolicyCallback(userARN, "user-policy-inline", items)}})

\* IAMListRolePolicies: line 422 assigns what the paginated call returned
IAMListRolePolicies(roleARN, items, listErr) ==
    The({[Resources |-> cb.Resources, Error |-> PagesErr(cb.stopped, listErr)] :
           cb \in {PolicyCallback(roleARN, "role-policy-inline", items)}})

\* IAMListPolicyVersions: lines 523-528 keep the error of the callback
IAMListPolicyVersions(policyArn, items, listErr) ==
    The({[Resources |-> cb.Resources,
          Error |-> IF cb.Error # NoErr THEN cb.Error ELSE PagesErr(cb.stopped, listErr)] :
           cb \in {PolicyCallback(policyArn, "policy-version", items)}})

\* the page of GetAccountAuthorizationDetails as the callback walks it: the
\* groups, then the users, the roles and the policies, each "ok" or "baddoc"
DetailsInOrder(page) ==
    [n \in 1..Len(page.Groups) |-> [type |-> "account-authorization-details-group", doc |-> page.Groups[n]]]
    \o [n \in 1..Len(page.Users) |-> [type |-> "account-authorization-details-user", doc |-> page.Users[n]]]
    \o [n \in 1..Len(page.Roles) |-> [type |-> "account-authorization-details-role", doc |-> page.Roles[n]]]
    \o [n \in 1..Len(page.Policies) |-> [type |-> "account-authorization-details-policy", doc |-> page.Policies[n]]]

\* the callback of lines 253-361 over the entries still to walk
RECURSIVE DetailsLoop(_, _, _)
DetailsLoop(entries, n, st) ==
    IF n > Len(entries) THEN st
    ELSE IF entries[n].doc = "baddoc" THEN [st EXCEPT !.Error = ErrDecode, !.stopped = TRUE]
    ELSE The({DetailsLoop(entries, n + 1, t) :
                t \in {[st EXCEPT !.Resources =
                          Append(@, ReportResource(<<entries[n].type, ItemName(n)>>,
                                                   <<entries[n].type, ItemName(n)>>,
                                                   entries[n].type))]}})

\* IAMListAccountAuthorizationDetails: line 363 assigns what the paginated
\* call returned
IAMListAccountAuthorizationDetails(page, listErr) ==
    The({[Resources |-> cb.Resources, Error |-> PagesErr(cb.stopped, listErr)] :
           cb \in {DetailsLoop(DetailsInOrder(page), 1,
                               [Resources |-> <<>>, Error |-> NoErr, stopped |-> FALSE])}})

\* the answers drawn for the items of one paginated call
DrawnItems(max) == UNION {[1..n -> {"ok", "getfail", "baddoc"}] : n \in 0..max}

DrawnPages ==
    {[Groups |-> g, Users |-> u, Roles |-> r, Policies |-> q] :
       g, u, r, q \in {<<>>, <<"ok">>, <<"baddoc">>}}

ListerCall(fn, input, listErr) ==
    [op |-> "lister", fn |-> fn, input |-> input, listErr |-> listErr, done |-> FALSE,
     result |-> [Resources |-> <<>>, Error |-> NoErr]]

InitLister ==
    /\ Untouched
    /\ NoReport
    /\ call \in {ListerCall(fn, items, e) :
                   fn \in {"IAMListUserPolicies", "IAMListRolePolicies", "IAMListPolicyVersions"},
                   items \in DrawnItems(MaxItems), e \in {NoErr, ErrList}}
                \cup {ListerCall("IAMListAccountAuthorizationDetails", page, e) :
                        page \in DrawnPages, e \in {NoErr, ErrList}}

\* one call of a lister
ListerReturn ==
    /\ call.op = "lister"
    /\ ~call.done
    /\ call' = [call EXCEPT
                  !.done = TRUE,
                  !.result =
                     CASE call.fn = "IAMListUserPolicies" ->
                            IAMListUserPolicies(<<"u1">>, call.input, call.listErr)
                       [] call.fn = "IAMListRolePolicies" ->
                            IAMListRolePolicies(<<"r1">>, call.input, call.listErr)
                       [] call.fn = "IAMListPolicyVersions" ->
                            IAMListPolicyVersions(<<"p1">>, call.input, call.listErr)
                       [] OTHER ->
                            IAMListAccountAuthorizationDetails(call.input, call.listErr)]
    /\ UNCHANGED <<tvars, ivars>>

SpecLister == InitLister /\ [][ListerReturn]_vars

\* ---------------------------------------------------------------- IAM reports with last-accessed details

\* A principal of the account is [Arn, Items, ItemsErr, Attached, AttachedErr,
\* Keys, KeysErr]: its ARN, the answers for its inline policies (a user) or
\* its versions (a policy), how many attached policies it has, the answers of
\* GetAccessKeyLastUsed for its access keys ("ok" or "getfail"), and for each
\* of the three listings the error of its paginated request, which comes after
\* the items were listed.

\* spec-modelled: NewResource(arn, object) gives a resource with that ARN
NewResource(arn, type) == ReportResource(arn, arn, type)

\* IAMListUserAttachedPolicies: one resource without ARN for each attached
\* policy; the callback never stops, line 48 assigns what the paginated call
\* returned
IAMListUserAttachedPolicies(userARN, count, listErr) ==
    [Resources |-> [n \in 1..count |->
                      ReportResource(userARN \o <<"attached", ItemName(n)>>, <<>>,
                                     "user-policy-attachment")],
     Error |-> listErr]

\* the callback of IAMListAccessKeys over the keys of the page (lines 578-597):
\* st is [n, Resources, Error, stopped]
RECURSIVE AccessKeyLoop(_, _, _)
AccessKeyLoop(username, keys, st) ==
    IF st.n > Len(keys) \/ st.stopped THEN st
    ELSE IF keys[st.n] = "getfail" THEN [st EXCEPT !.Error = ErrGet, !.stopped = TRUE]
    ELSE The({AccessKeyLoop(username, keys, t) :
                t \in {[st EXCEPT !.n = @ + 1,
                                  !.Resources =
                                     Append(@, ReportResource(username \o <<"key", ItemName(st.n)>>,
                                                              <<>>, "access-key"))]}})

\* IAMListAccessKeys: one resource without ARN for each access key whose
\* GetAccessKeyLastUsed succeeds; line 574 assigns what the paginated call
\* returned
IAMListAccessKeys(username, keys, listErr) ==
    The({[Resources |-> cb.Resources, Error |-> PagesErr(cb.stopped, listErr)] :
           cb \in {AccessKeyLoop(username, keys,
                                 [n |-> 1, Resources |-> <<>>, Error |-> NoErr,
                                  stopped |-> FALSE])}})

\* the callback of IAMListUsersAndAccessKeys for one user (lines 99-121): st
\* is [n, Resources, arns, accessKeys, Error, stopped]
UserStep(user, st) ==
    LET inline == IAMListUserPolicies(user.Arn, user.Items, user.ItemsErr)
        attached == IAMListUserAttachedPolicies(user.Arn, user.Attached, user.AttachedErr)
        keys == IAMListAccessKeys(user.Arn, user.Keys, user.KeysErr)
        listed == [st EXCEPT !.arns = Append(@, user.Arn),
                             !.Resources = Append(@, NewResource(user.Arn, "user"))]
    IN  IF inline.Error # NoErr
        THEN [listed EXCEPT !.Error = inline.Error, !.stopped = TRUE]
        ELSE IF attached.Error # NoErr
        THEN [listed EXCEPT !.Resources = @ \o inline.Resources,
                            !.Error = attached.Error, !.stopped = TRUE]
        ELSE IF keys.Error # NoErr
        THEN [listed EXCEPT !.Resources = @ \o inline.Resources \o attached.Resources,
                            !.Error = keys.Error, !.stopped = TRUE]
        ELSE [listed EXCEPT !.n = @ + 1,
                            !.Resources = @ \o inline.Resources \o attached.Resources,
                            !.accessKeys = @ \o keys.Resources]

\* the callback of IAMListPolicies for one policy (lines 538-553)
PolicyListStep(policy, st) ==
    LET policyVersions == IAMListPolicyVersions(policy.Arn, policy.Items, policy.ItemsErr)
        listed == [st EXCEPT !.arns = Append(@, policy.Arn)]
    IN  IF policyVersions.Error # NoErr
        THEN [listed EXCEPT !.Error = policyVersions.Error, !.stopped = TRUE]
        ELSE [listed EXCEPT !.n = @ + 1,
                            !.Resources = Append(@, NewResource(policy.Arn, "policy"))
                                            \o policyVersions.Resources]

\* the callback over the principals of the page
RECURSIVE PrincipalLoop(_, _, _)
PrincipalLoop(kind, principals, st) ==
    IF st.n > Len(principals) \/ st.stopped THEN st
    ELSE The({PrincipalLoop(kind, principals, t) :
                t \in {IF kind = "policies" THEN PolicyListStep(principals[st.n], st)
                       ELSE UserStep(principals[st.n], st)}})

\* lines 96-125 and 535-557: the paginated call with its callback; what it
\* returns is assigned to result.Error when it is over
ListPages(kind, acc) ==
    The({[Resources |-> cb.Resources, arns |-> cb.arns, accessKeys |-> cb.accessKeys,
          Error |-> PagesErr(cb.stopped, acc.listErr)] :
           cb \in {PrincipalLoop(kind, acc.Principals,
                                 [n |-> 1, Resources |-> <<>>, arns |-> <<>>,
                                  accessKeys |-> <<>>, Error |-> NoErr, stopped |-> FALSE])}})

\* the job the service starts for an ARN, and the ARN whose details it reports
JobFor(arn) == <<"job">> \o arn

SubjectOf(jobId) == Tail(jobId)

\* the answers drawn for the access keys of a user
DrawnKeyAnswers == {<<>>, <<"ok">>, <<"getfail">>, <<"ok", "getfail">>}

\* the principals drawn for a report; at most one of the listings of a
\* principal has a request that fails
DrawnPrincipal(kind, n) ==
    {[Arn |-> <<IF kind = "policies" THEN "policy" ELSE "user", ItemName(n)>>,
      Items |-> items,
      ItemsErr |-> IF fails = "items" THEN ErrList ELSE NoErr,
      Attached |-> a,
      AttachedErr |-> IF fails = "attached" THEN ErrList ELSE NoErr,
      Keys |-> k,
      KeysErr |-> IF fails = "keys" THEN ErrList ELSE NoErr] :
       items \in DrawnItems(1),
       a \in IF kind = "policies" THEN {0} ELSE 0..1,
       k \in IF kind = "policies" THEN {<<>>} ELSE DrawnKeyAnswers,
       fails \in IF kind = "policies" THEN {"none", "items"}
                 ELSE {"none", "items", "attached", "keys"}}

RECURSIVE DrawnPrincipals(_, _)
DrawnPrincipals(kind, n) ==
    IF n = 0 THEN {<<>>}
    ELSE {Append(l, x) : l \in DrawnPrincipals(kind, n - 1), x \in DrawnPrincipal(kind, n)}

DrawnAccounts(kind, max) ==
    {[Principals |-> l, listErr |-> e] :
       l \in UNION {DrawnPrincipals(kind, n) : n \in 0..max}, e \in {NoErr, ErrList}}

InitReport ==
    /\ Untouched
    /\ call = NoCall
    /\ report \in {"users-and-access-keys", "policies"}
    /\ account \in DrawnAccounts(report, MaxPrincipals)
    /\ result = [Resources |-> <<>>, Error |-> NoErr]
    /\ arns = <<>>
    /\ accessKeys = <<>>
    /\ jobIds = <<>>
    /\ jobi = 0
    /\ log = <<>>
    /\ rpc = "start"

\* IAMListUsersAndAccessKeys, lines 96-129, and IAMListPolicies, lines 535-561
ListPrincipals ==
    /\ rpc = "start"
    /\ \E r \in {ListPages(report, account)} :
         /\ result' = [Resources |-> r.Resources, Error |-> r.Error]
         /\ arns' = r.arns
         /\ accessKeys' = r.accessKeys
         /\ rpc' = IF r.Error # NoErr THEN "returned" ELSE "generate"
    /\ UNCHANGED <<tvars, call, report, account, jobIds, jobi, log>>

\* GenerateServiceLastAccessedDetails when every call succeeds
GenerateServiceLastAccessedDetails ==
    /\ rpc = "generate"
    /\ jobIds' = [n \in 1..Len(arns) |-> JobFor(arns[n])]
    /\ jobi' = 0
    /\ rpc' = "attach"
    /\ UNCHANGED <<tvars, call, report, account, result, arns, accessKeys, log>>

\* GenerateServiceLastAccessedDetails when a call fails: lines 609-611, and
\* lines 132-135 of the lister
GenerateError ==
    /\ rpc = "generate"
    /\ Len(arns) > 0
    /\ result' = [result EXCEPT !.Error = ErrGenerate]
    /\ rpc' = "returned"
    /\ UNCHANGED <<tvars, call, report, account, arns, accessKeys, jobIds, jobi, log>>

\* the polls of job j so far that found it in progress
InProgressPolls(j) == Cardinality({n \in 1..Len(log) : log[n] = [job |-> j, status |-> "IN_PROGRESS"]})

\* a poll that finds the job in progress: lines 625-628
PollInProgress ==
    /\ rpc = "attach"
    /\ jobi < Len(jobIds)
    /\ InProgressPolls(jobi) < MaxInProgress
    /\ log' = Append(log, [job |-> jobi, status |-> "IN_PROGRESS"])
    /\ UNCHANGED <<tvars, call, report, account, result, arns, accessKeys, jobIds, jobi, rpc>>

\* a poll that fails: lines 621-624; the lister then returns (lines 138-139)
PollError ==
    /\ rpc = "attach"
    /\ jobi < Len(jobIds)
    /\ log' = Append(log, [job |-> jobi, status |-> "error"])
    /\ result' = [Resources |-> result.Resources \o accessKeys, Error |-> ErrPoll]
    /\ rpc' = "returned"
    /\ UNCHANGED <<tvars, call, report, account, arns, accessKeys, jobIds, jobi>>

\* a poll that finds the job completed: lines 629-643; result.Resources[i]
\* is a runtime fault when the report has no such resource
PollCompleted ==
    /\ rpc = "attach"
    /\ jobi < Len(jobIds)
    /\ log' = Append(log, [job |-> jobi, status |-> "COMPLETED"])
    /\ IF jobi < Len(result.Resources)
       THEN /\ result' = [result EXCEPT !.Resources[jobi + 1].ServiceLastAccessed =
                                            SubjectOf(jobIds[jobi + 1])]
            /\ jobi' = jobi + 1
            /\ rpc' = rpc
       ELSE /\ rpc' = "fault"
            /\ UNCHANGED <<result, jobi>>
    /\ UNCHANGED <<tvars, call, report, account, arns, accessKeys, jobIds>>

\* a poll that finds any other status: line 643
PollFailed ==
    /\ rpc = "attach"
    /\ jobi < Len(jobIds)
    /\ log' = Append(log, [job |-> jobi, status |-> "FAILED"])
    /\ jobi' = jobi + 1
    /\ UNCHANGED <<tvars, call, report, account, result, arns, accessKeys, jobIds, rpc>>

\* the end of the loop of AttachServiceLastAccessedDetails, and lines 138-139
AttachReturn ==
    /\ rpc = "attach"
    /\ jobi >= Len(jobIds)
    /\ result' = [result EXCEPT !.Resources = @ \o accessKeys]
    /\ rpc' = "returned"
    /\ UNCHANGED <<tvars, call, report, account, arns, accessKeys, jobIds, jobi, log>>

NextReport ==
    \/ ListPrincipals
    \/ GenerateServiceLastAccessedDetails
    \/ GenerateError
    \/ PollInProgress
    \/ PollError
    \/ PollCompleted
    \/ PollFailed
    \/ AttachReturn

SpecReport == InitReport /\ [][NextReport]_vars

\* the report goes on as long as it has a step to take
SpecReportFair == SpecReport /\ WF_vars(NextReport)

\* ---------------------------------------------------------------- properties

Valid == Len(Destination) > 0 /\ Len(S3) > 0

IsPrefix(a, b) == Len(a) <= Len(b) /\ SubSeq(b, 1, Len(a)) = a

\* the local paths of the keys of backend k
FilesOf(k) ==
    {LocalPath(Destination, S3[k].Bucket, S3[k].Keys[n], Options) : n \in 1..Len(S3[k].Keys)}

\* the instances of a document, each with the type of its resource
InstancesOf(doc) ==
    {[Type |-> doc.Modules[m][r].Type, inst |-> doc.Modules[m][r].Instances[n]] :
       <<m, r, n>> \in {t \in (1..Len(doc.Modules)) \X (1..8) \X (1..8) :
                          /\ t[2] <= Len(doc.Modules[t[1]])
                          /\ t[3] <= Len(doc.Modules[t[1]][t[2]].Instances)}}

\* an instance that yields a descriptor
Retained(x) ==
    /\ x.inst.Current
    /\ x.inst.arn # Absent \/ x.Type \in {"aws_iam_access_key", "aws_route53_record",
                                          "aws_route53_zone"}

\* a file content that decodes: a state document in which every instance with
\* a current generation has a well-formed blob, a string id and, if any, a string arn
GoodDoc(content) ==
    /\ content.kind = "doc"
    /\ content.envelope
    /\ \A x \in InstancesOf(content) :
         x.inst.Current => /\ x.inst.blob
                           /\ x.inst.id.t = "string"
                           /\ x.inst.arn.t \in {"string", "nil"}

\* the identifiers of the descriptors of a document that decodes
DocIds(doc) == {x.inst.id.v : x \in {y \in InstancesOf(doc) : Retained(y)}}

Decodes(f) == f \in DOMAIN files /\ GoodDoc(files[f])

\* C1: on a configuration with an empty destination or an empty backend list
\* Verify returns an error, and Pull returns nil without calling Download:
\* no directory or file is created and nothing is retrieved.
C1_InvalidPullDoesNothing ==
    ~Valid =>
      /\ Verify(Destination, S3, Options).err # NoErr
      /\ verifyRet # NoErr
      /\ pc = "idle"
      /\ pulls > 0 => pullRet = NoErr
      /\ downloads = <<>>
      /\ \A n \in 1..Len(history) : history[n].ret = NoErr /\ history[n].downloads = <<>>
      /\ dirs = {}
      /\ files = EmptyMap

C1_Witness ==
    /\ pulls = 2
    /\ verifyRet # NotCalled
    /\ \/ Len(Destination) = 0 /\ Len(S3) = 2
       \/ Len(S3) = 0 /\ Len(Destination) > 0

\* what an error of Download says about the backend it comes from: the path
\* lies under the backend's directory, the objects are the backend's
ErrNames(err, backend) ==
    IF err.op = "BatchedDownloadIncomplete"
    THEN /\ err.objects # {}
         /\ \A o \in err.objects :
              o.Bucket = backend.Bucket /\ \E n \in 1..Len(backend.Keys) : backend.Keys[n] = o.Key
    ELSE /\ err.op \in {"mkdir", "open"}
         /\ IsPrefix(Join(<<Destination, backend.Bucket>>), err.path)

\* C2: Pull goes through the backends one at a time in the order of the
\* configuration and stops at the first Download that fails: it returns that
\* Download's error, which names the backend; the files retrieved for the
\* backends before it are still on disk; no Download is started after it.
C2_FailFastInOrder ==
    /\ \A j \in 1..Len(downloads) : downloads[j].backend = j
    /\ \A j \in 1..(Len(downloads) - 1) : downloads[j].err = NoErr
    /\ pc = "pull" => /\ Len(downloads) = i - 1
                      /\ \A j \in 1..Len(downloads) : downloads[j].err = NoErr
    /\ (pc = "idle" /\ Valid /\ pulls > 0) =>
         IF pullRet = NoErr
         THEN /\ Len(downloads) = Len(S3)
              /\ \A j \in 1..Len(downloads) : downloads[j].err = NoErr
         ELSE LET k == Len(downloads) IN
              /\ k >= 1
              /\ pullRet = downloads[k].err
              /\ ErrNames(pullRet, S3[k])
              /\ \A j \in 1..(k - 1) : \A n \in 1..Len(downloads[j].objects) :
                   LET o == downloads[j].objects[n] IN
                   /\ o.Writer \in DOMAIN files
                   /\ (\A m \in 1..Len(downloads[k].objects) :
                         downloads[k].objects[m].Writer # o.Writer)
                      => files[o.Writer] = S3Object(o.Bucket, o.Key)

C2_Witness ==
    /\ pc = "idle"
    /\ Len(S3) = 3
    /\ Len(downloads) = 2
    /\ downloads[1].issued
    /\ pullRet.op = "BatchedDownloadIncomplete"

\* the backends with a decoded state file that holds this identifier
Holders(id) ==
    {k \in 1..Len(S3) :
       \E f \in FilesOf(k) \cap DOMAIN StateFilenames : Decodes(f) /\ id \in DocIds(files[f])}

Last(ks) == CHOOSE k \in ks : \A j \in ks : j <= k

\* C3: an identifier found in the state files of two or more backends is
\* indexed under the remote reference of the backend that comes last in the
\* configured list, whatever order Load visits the map in.
C3_LaterBackendWins ==
    (pc = "idle" /\ loadRet = NoErr) =>
      \A id \in DOMAIN managed :
        Cardinality(Holders(id)) >= 2 =>
          \E f \in FilesOf(Last(Holders(id))) \cap DOMAIN StateFilenames :
            /\ Decodes(f)
            /\ id \in DocIds(files[f])
            /\ managed[id] = StateFilenames[f]

\* C4: Load returns no error, and its index holds exactly the identifiers of
\* the files of the map that decode; a file that does not decode, for
\* whatever reason, gives no entry and stops no other file.
C4_LoadFailSoft ==
    loadRet # NotCalled =>
      /\ loadRet = NoErr
      /\ DOMAIN managed =
           UNION {DocIds(files[f]) : f \in {g \in DOMAIN StateFilenames : Decodes(g)}}

C4_Witness ==
    /\ loadRet = NoErr
    /\ \E f, g \in DOMAIN StateFilenames :
         /\ f \in DOMAIN files /\ files[f] = DocYA_B
         /\ g \in DOMAIN files /\ files[g].kind = "partial"
    /\ "i-1" \in DOMAIN managed
    /\ "i-4" \notin DOMAIN managed

\* C5: with overwrite false, a Pull that follows a Pull that returned nil
\* enqueues no key of any backend, issues no batched retrieval, returns nil
\* and leaves the same map.
C5_SecondPullRetrievesNothing ==
    Valid =>
      \A n \in 2..Len(history) :
        (history[n - 1].ret = NoErr /\ ~history[n].options.Overwrite) =>
          /\ history[n].ret = NoErr
          /\ Len(history[n].downloads) = Len(S3)
          /\ \A j \in 1..Len(history[n].downloads) :
               history[n].downloads[j].objects = <<>> /\ ~history[n].downloads[j].issued
          /\ history[n].StateFilenames = history[n - 1].StateFilenames

C5_Witness ==
    /\ Valid
    /\ Len(history) = 2
    /\ Len(S3) >= 2
    /\ history[1].ret = NoErr
    /\ ~history[2].options.Overwrite
    /\ \A j \in 1..Len(S3) : history[1].downloads[j].issued
    /\ history[2].ret = NoErr

\* C6: after a Pull that returns nil on a valid configuration the map holds,
\* for every key of every backend, an entry from the key's local path to the
\* reference built from the bucket and the key as configured.
C6_EveryKeyMapped ==
    (pc = "idle" /\ Valid /\ pulls > 0 /\ pullRet = NoErr) =>
      \A k \in 1..Len(S3) : \A n \in 1..Len(S3[k].Keys) :
        \E f \in {LocalPath(Destination, S3[k].Bucket, S3[k].Keys[n], Options)} :
          /\ f \in DOMAIN StateFilenames
          /\ StateFilenames[f] = RemoteRef(S3[k].Bucket, S3[k].Keys[n])

\* C10, in every state: Verify accepts a valid configuration without options
\* and leaves the default options; no Download is handed nil options.
C10_DefaultsInPlace ==
    Valid =>
      /\ Options = NilOptions =>
           Verify(Destination, S3, Options) = [err |-> NoErr, Options |-> DefaultOptions]
      /\ verifyRet # NotCalled => verifyRet = NoErr /\ Options # NilOptions
      /\ pulls > 0 => Options # NilOptions
      /\ \A j \in 1..Len(downloads) :
           downloads[j].options # NilOptions /\ ~downloads[j].fault

\* C10, in every step: under the default options a Download enqueues no key
\* whose destination file was there when it began.
C10_ExistingSkipped ==
    (/\ Len(downloads') = Len(downloads) + 1
     /\ Options = DefaultOptions)
    => \A n \in 1..Len(downloads'[Len(downloads')].objects) :
         IsNotExist(StatErr(dirs, files, downloads'[Len(downloads')].objects[n].Writer))

\* C10: unset options are no error: Verify succeeds and leaves the default
\* options, so every Download of Pull gets options that are not nil and skips
\* the keys whose destination file exists.
C10_UnsetOptionsDefault == []C10_DefaultsInPlace /\ [][C10_ExistingSkipped]_vars

C10_Witness ==
    /\ Options = DefaultOptions
    /\ Len(history) = 2
    /\ history[1].ret = NoErr
    /\ \E j \in 1..Len(S3) : history[1].downloads[j].issued
    /\ history[2].ret = NoErr
    /\ \A j \in 1..Len(S3) : history[2].downloads[j].objects = <<>>

\* replacement of every occurrence of old, found from the left without
\* overlap; an empty old occurs before every character and at the end
RECURSIVE EveryOccurrence(_, _, _)
EveryOccurrence(s, old, new) ==
    IF s = <<>> THEN (IF old = <<>> THEN new ELSE <<>>)
    ELSE IF old # <<>> /\ IsPrefix(old, s)
         THEN new \o The({EveryOccurrence(r, old, new) : r \in {SubSeq(s, Len(old) + 1, Len(s))}})
         ELSE (IF old = <<>> THEN new ELSE <<>>) \o <<Head(s)>>
                \o The({EveryOccurrence(r, old, new) : r \in {Tail(s)}})

\* the rules applied one after the other, each to the result of the one before
RECURSIVE InListOrder(_, _)
InListOrder(key, rules) ==
    IF rules = <<>> THEN key
    ELSE The({InListOrder(k, r) : k \in {EveryOccurrence(key, rules[1].Old, rules[1].New)},
                                  r \in {Tail(rules)}})

\* the elements of a path: what stands between its separators
RECURSIVE Elements(_)
Elements(p) ==
    IF p = <<>> THEN <<>>
    ELSE IF Head(p) = "/" THEN The({Elements(r) : r \in {Tail(p)}})
    ELSE The({<<SubSeq(p, 1, n)>> \o The({Elements(r) : r \in {SubSeq(p, n + 1, Len(p))}}) :
                n \in {CHOOSE k \in 1..Len(p) : /\ \A m \in 1..k : p[m] # "/"
                                                /\ k = Len(p) \/ p[k + 1] = "/"}})

\* the elements that remain when "." stands for the directory itself and ".."
\* for its parent
RECURSIVE Resolved(_, _, _)
Resolved(elems, rooted, stack) ==
    IF elems = <<>> THEN stack
    ELSE The({Resolved(e, rooted, st) :
                e \in {Tail(elems)},
                st \in {IF Head(elems) = <<".">> THEN stack
                        ELSE IF Head(elems) # <<".", ".">> THEN Append(stack, Head(elems))
                        ELSE IF stack # <<>> /\ stack[Len(stack)] # <<".", ".">>
                             THEN SubSeq(stack, 1, Len(stack) - 1)
                        ELSE IF rooted THEN stack
                        ELSE Append(stack, <<".", ".">>)}})

RECURSIVE Written(_)
Written(elems) ==
    IF elems = <<>> THEN <<>>
    ELSE IF Len(elems) = 1 THEN elems[1]
    ELSE elems[1] \o SL \o The({Written(r) : r \in {Tail(elems)}})

\* the shortest way to write the file a path names
Shortest(p) ==
    The({IF p[1] = "/" THEN SL \o w ELSE IF w = <<>> THEN <<".">> ELSE w :
           w \in {Written(Resolved(Elements(p), p[1] = "/", <<>>))}})

\* where the directory part of a rewritten key ends: at its last separator
DirEnd(t) ==
    CHOOSE n \in 0..Len(t) : /\ n = 0 \/ t[n] = "/"
                             /\ \A m \in (n + 1)..Len(t) : t[m] # "/"

\* C7: the local path of a key is {destination}/{bucket}/{directory part}/
\* {file part} of the key rewritten by every substitution rule in list order,
\* each rule replacing all occurrences of its literal old by its new; the rules
\* ("/","_"), ("_v2","") turn a/b_v2 into a_b.
C7_LocalPath ==
    (call.op = "path" /\ call.done) =>
      \E t \in {InListOrder(call.key, call.options.PathSubstitutions)} :
        /\ call.transformed = t
        /\ call.path = Shortest(call.destination \o SL \o call.bucket \o SL
                                \o SubSeq(t, 1, DirEnd(t)) \o SL
                                \o SubSeq(t, DirEnd(t) + 1, Len(t)))
        /\ call.dir = Shortest(call.destination \o SL \o call.bucket \o SL
                               \o SubSeq(t, 1, DirEnd(t)))
        /\ (call.key = ExampleKey /\ call.options = ExampleOptions)
             => t = <<"a", "_", "b">>

C7_Witness ==
    /\ call.op = "path"
    /\ call.done
    /\ call.destination = <<"d">>
    /\ call.key = ExampleKey
    /\ call.options = ExampleOptions
    /\ call.path = <<"d", "/", "x", "/", "a", "_", "b">>

\* C8: LoadStateFromFile ends by returning descriptors or an error, never by
\* a runtime fault, whatever the attributes of the instances hold.
C8_DecoderNeverFaults ==
    (call.op = "decode" /\ call.done) => ~call.out.fault

\* the instances of a document in the order of the document
DocumentOrder(doc) ==
    LET OfResource(r) == [n \in 1..Len(r.Instances) |-> [Type |-> r.Type, inst |-> r.Instances[n]]]
        OfModule(m) == The(Concats([n \in 1..Len(m) |-> {OfResource(m[n])}]))
    IN  The(Concats([n \in 1..Len(doc.Modules) |-> {OfModule(doc.Modules[n])}]))

\* the descriptor of a retained instance: its id, and its arn or the empty string
Descriptor(x) ==
    [ID |-> x.inst.id.v, ARN |-> IF x.inst.arn = Absent THEN "" ELSE x.inst.arn.v]

\* one descriptor per retained instance, in the order of the document
Descriptors(doc) ==
    LET kept == SelectSeq(DocumentOrder(doc), Retained)
    IN  [n \in 1..Len(kept) |-> Descriptor(kept[n])]

\* C9: the descriptors of a well-formed document are those of its
\* retained instances, in the order of the document.
C9_DocumentOrder ==
    (call.op = "decode" /\ call.done /\ GoodDoc(call.doc)) =>
      /\ call.out.err = NoErr
      /\ ~call.out.fault
      /\ call.out.resources = Descriptors(call.doc)

\* the configured (bucket, key) pairs
ConfiguredPairs ==
    {[Bucket |-> S3[k].Bucket, Key |-> S3[k].Keys[n]] :
       <<k, n>> \in {t \in (1..Len(S3)) \X (1..8) : t[2] <= Len(S3[t[1]].Keys)}}

\* C11: two different configured (bucket, key) pairs never get the same local
\* path: after a Pull that returns nil the map has one entry for each
\* configured key, and no Download enqueues two objects for the same file.
C11_KeysUnique ==
    (pc = "idle" /\ Valid /\ pulls > 0 /\ pullRet = NoErr) =>
      /\ \A p, q \in ConfiguredPairs :
           LocalPath(Destination, p.Bucket, p.Key, Options)
             = LocalPath(Destination, q.Bucket, q.Key, Options) => p = q
      /\ Cardinality(DOMAIN StateFilenames) = Cardinality(ConfiguredPairs)
      /\ \A j \in 1..Len(downloads) : \A a, b \in 1..Len(downloads[j].objects) :
           downloads[j].objects[a].Writer = downloads[j].objects[b].Writer => a = b

\* the entries the Downloads of one Pull recorded: those of the keys of every
\* backend whose Download returned no error
Recorded(dl) ==
    {[path |-> LocalPath(Destination, S3[dl[j].backend].Bucket, S3[dl[j].backend].Keys[n],
                         dl[j].options),
      ref |-> RemoteRef(S3[dl[j].backend].Bucket, S3[dl[j].backend].Keys[n])] :
       <<j, n>> \in {t \in (1..Len(dl)) \X (1..8) :
                       /\ dl[t[1]].err = NoErr
                       /\ t[2] <= Len(S3[dl[t[1]].backend].Keys)}}

\* C12: whatever Pulls came before, and however this Pull ended, the map a
\* Pull leaves holds the entries recorded in this Pull by the backends whose
\* Download completed, and nothing else; a Pull on an invalid configuration
\* leaves no entry.
C12_MapFreshPerPull ==
    /\ \A n \in 1..Len(history) : \A recorded \in {Recorded(history[n].downloads)} :
         /\ DOMAIN history[n].StateFilenames = {e.path : e \in recorded}
         /\ \A f \in DOMAIN history[n].StateFilenames :
              [path |-> f, ref |-> history[n].StateFilenames[f]] \in recorded
    /\ (pc = "idle" /\ Len(history) > 0) =>
         StateFilenames = history[Len(history)].StateFilenames

\* C13: with overwrite false a file that exists holds a whole object: a Pull
\* that returns nil, whatever failed in the Pulls before it, leaves every
\* file of the map with the content a batched retrieval delivered.
C13_ExistingFileComplete ==
    (pc = "idle" /\ Valid /\ pulls > 0 /\ pullRet = NoErr) =>
      (~Options.Overwrite =>
         \A f \in DOMAIN StateFilenames \cap DOMAIN files : files[f].kind = "doc")

\* the error the callback of a lister raises for these answers: that of the
\* first item the service fails on
RaisedBy(items) ==
    IF \A n \in 1..Len(items) : items[n] = "ok" THEN NoErr
    ELSE IF items[CHOOSE n \in 1..Len(items) :
                    items[n] # "ok" /\ \A m \in 1..(n - 1) : items[m] = "ok"] = "getfail"
         THEN ErrGet ELSE ErrDecode

\* C14: an error raised inside the page callback of a lister is the Error
\* of the result the lister returns.
C14_CallbackErrorKept ==
    (call.op = "lister" /\ call.done) =>
      \A raised \in {IF call.fn = "IAMListAccountAuthorizationDetails"
                     THEN RaisedBy(call.input.Groups \o call.input.Users
                                   \o call.input.Roles \o call.input.Policies)
                     ELSE RaisedBy(call.input)} :
        raised # NoErr => call.result.Error = raised

\* C15: the details of a completed job are written to the resource of the
\* report whose ARN the job was created for, and to no other, whatever
\* resources stand between the principals in the report.
C15_DetailsToSubject ==
    /\ \A k \in 1..Len(result.Resources) :
         result.Resources[k].ServiceLastAccessed # <<>> =>
           result.Resources[k].ServiceLastAccessed = result.Resources[k].ARN
    /\ rpc = "returned" =>
         \A n \in 1..Len(log) :
           log[n].status = "COMPLETED" =>
             \E k \in 1..Len(result.Resources) :
               /\ result.Resources[k].ARN = arns[log[n].job + 1]
               /\ result.Resources[k].ServiceLastAccessed = arns[log[n].job + 1]

\* C16, in every state: the polls go through the jobs in order; after a poll
\* that found the job in progress the loop is at the same job, after one that
\* found any other status it is at the next job, after one that failed the
\* report has returned with the error; only a job found completed has
\* details attached; a report that returns without error has seen a last
\* status of every job.
C16_PollsInOrder ==
    /\ \A n \in 1..Len(log) :
         /\ n = 1 => log[n].job = 0
         /\ n < Len(log) =>
              /\ log[n].status # "error"
              /\ log[n + 1].job = IF log[n].status = "IN_PROGRESS" THEN log[n].job
                                  ELSE log[n].job + 1
         /\ n = Len(log) =>
              /\ log[n].status = "IN_PROGRESS" => jobi = log[n].job /\ rpc = "attach"
              /\ log[n].status \in {"COMPLETED", "FAILED"} =>
                   jobi = log[n].job + 1 /\ rpc \in {"attach", "returned"}
              /\ log[n].status = "error" => rpc = "returned" /\ result.Error = ErrPoll
    /\ \A k \in 1..Len(result.Resources) :
         result.Resources[k].ServiceLastAccessed # <<>> =>
           \E n \in 1..Len(log) : log[n] = [job |-> k - 1, status |-> "COMPLETED"]
    /\ (rpc = "returned" /\ result.Error = NoErr) =>
         \A j \in 0..(Len(arns) - 1) :
           Cardinality({n \in 1..Len(log) :
                          log[n].job = j /\ log[n].status \in {"COMPLETED", "FAILED"}}) = 1

\* C16: the polling is a state machine over the jobs in order, and it ends
\* once no job is found in progress any more.
C16_PollingStateMachine ==
    []C16_PollsInOrder /\ (rpc = "attach" ~> rpc = "returned")

====
